---- MODULE Spec2Model ----
(***************************************************************************)
(* Model of main.py of mistral_ocr: a command-line pipeline                *)
(*   parse_args -> run_ocr (getenv, encode_pdf, build request, remote      *)
(*   call, write_markdown) -> print / error exit.                          *)
(* Text is a sequence of one-character strings, bytes are numbers, a path  *)
(* is the sequence of its components, a message is a sequence of text      *)
(* fragments (the literal pieces of an f-string and the interpolated       *)
(* values).  An optional value (None or a value) is <<>> or <<value>>.     *)
(***************************************************************************)
EXTENDS Integers, Sequences, FiniteSets, TLC

VARIABLES
    argv,       \* the command line: the options given
    environ,    \* the process environment
    dirs,       \* file system: the directories that exist
    files,      \* file system: path -> bytes of every regular file
    pc,         \* the statement main() is at
    args,       \* argparse.Namespace returned by parse_args
    api_key,    \* run_ocr local
    base64_pdf, \* run_ocr local
    kwargs,     \* run_ocr local: keyword arguments of client.ocr.process
    response,   \* run_ocr local: the OCR response
    exc,        \* the exception being propagated, if any
    sent,       \* remote service: the requests it has received
    ops,        \* the external operations performed so far, in order
    stdout,     \* lines printed to standard output
    stderr,     \* lines printed to standard error
    exit_code,  \* <<>> while running, <<n>> once the process exited
    fs0         \* history: the file system when the process started

vars == <<argv, environ, dirs, files, pc, args, api_key, base64_pdf, kwargs,
          response, exc, sent, ops, stdout, stderr, exit_code, fs0>>

(***************************** bounds **************************************)
MaxSize == 4       \* size of a response: its pages plus their characters of text
MaxIndex == 10     \* largest zero-based page index a response carries

(***************************** text ****************************************)
\* The ASCII characters of the model: letters, digits, and the punctuation
\* that headings and base64 text use.
Digits == <<"0", "1", "2", "3", "4", "5", "6", "7", "8", "9">>

Upper ==
    <<"A", "B", "C", "D", "E", "F", "G", "H", "I", "J", "K", "L", "M",
      "N", "O", "P", "Q", "R", "S", "T", "U", "V", "W", "X", "Y", "Z">>

Lower ==
    <<"a", "b", "c", "d", "e", "f", "g", "h", "i", "j", "k", "l", "m",
      "n", "o", "p", "q", "r", "s", "t", "u", "v", "w", "x", "y", "z">>

CodePoints ==
    {9, 10, 13, 32, 35, 43, 47, 61} \cup (48..57) \cup (65..90) \cup (97..122)

\* bytes.decode("utf-8") / str.encode() on one ASCII character.
Chr(b) ==
    CASE b = 9  -> "\t"
      [] b = 10 -> "\n"
      [] b = 13 -> "\r"
      [] b = 32 -> " "
      [] b = 35 -> "#"
      [] b = 43 -> "+"
      [] b = 47 -> "/"
      [] b = 61 -> "="
      [] b \in 48..57  -> Digits[b - 47]
      [] b \in 65..90  -> Upper[b - 64]
      [] b \in 97..122 -> Lower[b - 96]

Ord(c) == CHOOSE b \in CodePoints : Chr(b) = c

decode(bytes) == [i \in 1..Len(bytes) |-> Chr(bytes[i])]

encode(text) == [i \in 1..Len(text) |-> Ord(text[i])]

\* str.isspace() on the characters of the model.
IsSpace(c) == c \in {" ", "\t", "\n", "\r"}

\* rstrip that removes newlines only, as rstrip("\n") would
RECURSIVE rstrip_newlines(_)
rstrip_newlines(s) ==
    IF s = <<>> THEN s
    ELSE IF s[Len(s)] = "\n" THEN rstrip_newlines(SubSeq(s, 1, Len(s) - 1))
    ELSE s

RECURSIVE rstrip(_)
rstrip(s) ==
    IF s = <<>> THEN s
    ELSE IF IsSpace(s[Len(s)]) THEN rstrip(SubSeq(s, 1, Len(s) - 1))
    ELSE s

\* str(int) for a non-negative integer, as interpolated by an f-string.
RECURSIVE IntStr(_)
IntStr(n) ==
    IF n < 10 THEN <<Chr(48 + n)>>
    ELSE IntStr(n \div 10) \o <<Chr(48 + (n % 10))>>

\* "".join(lines)
RECURSIVE join(_)
join(lines) ==
    IF lines = <<>> THEN <<>> ELSE Head(lines) \o join(Tail(lines))

(***************************** paths ***************************************)
name(path) == IF path = <<>> THEN "" ELSE path[Len(path)]

parent(path) == IF path = <<>> THEN <<>> ELSE SubSeq(path, 1, Len(path) - 1)

\* str(path): the components joined by "/"; the empty path is ".".
RECURSIVE PathStr(_)
PathStr(path) ==
    IF path = <<>> THEN <<".">>
    ELSE IF Len(path) = 1 THEN path
    ELSE PathStr(parent(path)) \o <<"/", name(path)>>

\* path and all its ancestors below the working directory
Ancestors(path) == {SubSeq(path, 1, n) : n \in 0..Len(path)}

(***************************** base64 **************************************)
\* The byte base64.b64encode emits for the 6-bit value v.
B64Byte(v) ==
    IF v < 26 THEN 65 + v
    ELSE IF v < 52 THEN 97 + (v - 26)
    ELSE IF v < 62 THEN 48 + (v - 52)
    ELSE IF v = 62 THEN 43
    ELSE 47

\* base64.b64encode(data): three bytes become four, "=" pads the last group.
RECURSIVE b64encode(_)
b64encode(data) ==
    IF data = <<>> THEN <<>>
    ELSE IF Len(data) = 1 THEN
        <<B64Byte(data[1] \div 4), B64Byte((data[1] % 4) * 16), 61, 61>>
    ELSE IF Len(data) = 2 THEN
        <<B64Byte(data[1] \div 4),
          B64Byte((data[1] % 4) * 16 + (data[2] \div 16)),
          B64Byte((data[2] % 16) * 4), 61>>
    ELSE
        <<B64Byte(data[1] \div 4),
          B64Byte((data[1] % 4) * 16 + (data[2] \div 16)),
          B64Byte((data[2] % 16) * 4 + (data[3] \div 64)),
          B64Byte(data[3] % 64)>>
        \o b64encode(SubSeq(data, 4, Len(data)))

(***************************** inputs **************************************)
DefaultPdf == <<"..", "AXP2101_no_watermark.pdf">>
DefaultModel == "mistral-ocr-latest"
DefaultOutput == <<"ocr_output.md">>

\* The PDF that exists, a directory, and (the default) a path with nothing at it.
PdfFile == <<"scans", "doc.pdf">>
PdfData == <<37, 80, 68, 70>>
PdfArgs == {<<>>, <<PdfFile>>, <<<<"scans">>>>}
ModelArgs == {<<>>, <<"mistral-ocr-2505">>}
NestedOutput == <<"out", "sub", "ocr.md">>
OutputArgs == {<<>>, <<NestedOutput>>}
ExtraArgs == {<<>>, <<"--help">>, <<"--bogus">>}
OldContent == encode(<<"o", "l", "d", "\n">>)

Argvs ==
    [pdf : PdfArgs, model : ModelArgs, include_images : BOOLEAN,
     output : OutputArgs, extra : ExtraArgs]

Environs ==
    {<<>>} \cup [{"MISTRAL_API_KEY"} -> {"", "sk-test"}]

DirStates ==
    { {<<>>, <<"scans">>} \cup d :
        d \in { {}, {<<"out">>}, {<<"out">>, <<"out", "sub">>} } }

\* The text of one page: any string over the alphabet of at most n characters.
Alphabet == {"A", "B", " ", "\n"}

RECURSIVE TextsOfLen(_)
TextsOfLen(n) ==
    IF n = 0 THEN {<<>>}
    ELSE {<<c>> \o t : c \in Alphabet, t \in TextsOfLen(n - 1)}

Texts(n) == UNION {TextsOfLen(k) : k \in 0..n}

Indices == {0, 1, MaxIndex}

\* The responses of size at most budget: a page costs one, a character one.
RECURSIVE ResponsesOf(_)
ResponsesOf(budget) ==
    {<<>>} \cup
    IF budget = 0 THEN {}
    ELSE UNION { { <<[index |-> i, markdown |-> t]>> \o r :
                     r \in ResponsesOf(budget - 1 - Len(t)) } :
                 i \in Indices, t \in Texts(budget - 1) }

Responses == ResponsesOf(MaxSize)

\* What the remote call can raise: the SDK's own error, for several reasons,
\* and an exception of another class (a transport error of the HTTP layer).
ApiErrors ==
    { [type |-> "SDKError", msg |-> <<"API error occurred", ": ", "Status 401">>,
       cause |-> <<>>],
      [type |-> "SDKError", msg |-> <<"API error occurred", ": ", "Status 429">>,
       cause |-> <<>>],
      [type |-> "ConnectError", msg |-> <<"Name or service not known">>,
       cause |-> <<>>] }

\* issubclass(type, base) for the exception classes of the model.
IsSubclass(type, base) ==
    \/ type = base
    \/ base = "Exception"
    \/ base = "OSError"
       /\ type \in {"FileNotFoundError", "IsADirectoryError", "PermissionError"}

\* no exception is being propagated
NoExc == [type |-> "", msg |-> <<>>, cause |-> <<>>]

(***************************** pure parts **********************************)
\* argparse: the Namespace of a command line that parses, defaults filled in.
Namespace(a) ==
    [pdf            |-> IF a.pdf = <<>> THEN DefaultPdf ELSE a.pdf[1],
     model          |-> IF a.model = <<>> THEN DefaultModel ELSE a.model[1],
     include_images |-> a.include_images,
     output         |-> IF a.output = <<>> THEN DefaultOutput ELSE a.output[1]]

\* os.getenv(key): <<>> is None
os_getenv(key) ==
    IF key \in DOMAIN environ THEN <<environ[key]>> ELSE <<>>

\* a check for None only, as "if api_key is None" would make
IsNone(x) == x = <<>>

\* Python's "not x" for an optional string
Falsy(x) == x = <<>> \/ x = <<"">>

\* Path.read_bytes: what it raises for a path that is no regular file
read_bytes_error(path) ==
    IF path \in dirs
    THEN [type |-> "IsADirectoryError",
          msg  |-> <<"[Errno 21] Is a directory", ": ">> \o PathStr(path),
          cause |-> <<>>]
    ELSE [type |-> "FileNotFoundError",
          msg  |-> <<"[Errno 2] No such file or directory", ": ">> \o PathStr(path),
          cause |-> <<>>]

\* encode_pdf without its except clause
encode_pdf_reraises(path, raised) == raised

\* encode_pdf's except clause: the exception that leaves encode_pdf
encode_pdf_raises(path, raised) ==
    IF IsSubclass(raised.type, "FileNotFoundError")
    THEN [type |-> "FileNotFoundError",
          msg  |-> <<"PDF not found", ": ">> \o PathStr(path),
          cause |-> <<raised>>]
    ELSE raised

\* encode_pdf's return value
encode_pdf_returns(data) == decode(b64encode(data))

\* the option passed in every request, with the flag as its value
build_kwargs_always(a, b64) ==
    [model |-> a.model,
     document |-> [type          |-> "document_url",
                   document_url  |-> <<"data:application/pdf;base64,">> \o b64,
                   document_name |-> name(a.pdf)],
     include_image_base64 |-> a.include_images]

\* run_ocr lines 37-45: the keyword arguments of the remote call
build_kwargs(a, b64) ==
    LET document ==
            [type          |-> "document_url",
             document_url  |-> <<"data:application/pdf;base64,">> \o b64,
             document_name |-> name(a.pdf)]
    IN  IF a.include_images
        THEN [model |-> a.model, document |-> document,
              include_image_base64 |-> TRUE]
        ELSE [model |-> a.model, document |-> document]

\* run_ocr without the except clause around the remote call
run_ocr_reraises(err) == err

\* run_ocr's except clause around the remote call
run_ocr_raises(err) ==
    IF IsSubclass(err.type, "SDKError")
    THEN [type |-> "RuntimeError",
          msg  |-> <<"OCR request failed", ": ">> \o err.msg,
          cause |-> <<err>>]
    ELSE err

\* the loop with the heading numbered by the zero-based index itself
RECURSIVE output_lines_zero_based(_)
output_lines_zero_based(pages) ==
    IF pages = <<>> THEN <<>>
    ELSE << <<"#", " ", "P", "a", "g", "e", " ">>
              \o IntStr(Head(pages).index) \o <<"\n", "\n">>,
            rstrip(Head(pages).markdown) \o <<"\n", "\n">> >>
         \o output_lines_zero_based(Tail(pages))

\* write_markdown's loop: the list output_lines
RECURSIVE output_lines(_)
output_lines(pages) ==
    IF pages = <<>> THEN <<>>
    ELSE << <<"#", " ", "P", "a", "g", "e", " ">>
              \o IntStr(Head(pages).index + 1) \o <<"\n", "\n">>,
            rstrip(Head(pages).markdown) \o <<"\n", "\n">> >>
         \o output_lines(Tail(pages))

\* Path.mkdir(parents=True, exist_ok=True)
mkdir_parents(d, path) == d \cup Ancestors(path)

\* a file opened for appending instead of truncated
write_text_append(f, path, text) ==
    [q \in DOMAIN f \cup {path} |->
        IF q # path THEN f[q]
        ELSE IF path \in DOMAIN f THEN f[path] \o encode(text)
        ELSE encode(text)]

\* Path.write_text(text): the file is created or truncated, then written
write_text(f, path, text) ==
    [q \in DOMAIN f \cup {path} |-> IF q = path THEN encode(text) ELSE f[q]]

(***************************** state machine *******************************)
Init ==
    /\ argv \in Argvs
    /\ environ \in Environs
    /\ dirs \in DirStates
    /\ \E old \in BOOLEAN :
         LET out == Namespace(argv).output
             pdf == [q \in {PdfFile} |-> PdfData]
         IN  /\ old => parent(out) \in dirs
             /\ files = IF old THEN write_text(pdf, out, decode(OldContent))
                        ELSE pdf
    /\ pc = "parse_args"
    /\ args = <<>>
    /\ api_key = <<>>
    /\ base64_pdf = <<>>
    /\ kwargs = <<>>
    /\ response = <<>>
    /\ exc = NoExc
    /\ sent = <<>>
    /\ ops = <<>>
    /\ stdout = <<>>
    /\ stderr = <<>>
    /\ exit_code = <<>>
    /\ fs0 = [dirs |-> dirs, files |-> files]

\* main line 84, the command line parses
parse_args ==
    /\ pc = "parse_args"
    /\ argv.extra = <<>>
    /\ args' = Namespace(argv)
    /\ pc' = "run_ocr"
    /\ UNCHANGED <<fs0, argv, environ, dirs, files, api_key, base64_pdf, kwargs,
                   response, exc, sent, ops, stdout, stderr, exit_code>>

\* main line 84, --help: argparse prints the help and exits with 0
parse_args_help ==
    /\ pc = "parse_args"
    /\ argv.extra = <<"--help">>
    /\ stdout' = stdout \o << <<"usage: ">>, <<"Run Mistral OCR on a PDF">> >>
    /\ exit_code' = <<0>>
    /\ pc' = "exit"
    /\ UNCHANGED <<fs0, argv, environ, dirs, files, args, api_key, base64_pdf,
                   kwargs, response, exc, sent, ops, stderr>>

\* main line 84, a command line argparse rejects: usage and error, exit 2
parse_args_error ==
    /\ pc = "parse_args"
    /\ argv.extra \notin {<<>>, <<"--help">>}
    /\ stderr' = stderr \o << <<"usage: ">>,
                              <<"error: ", "unrecognized arguments: ">>
                                 \o argv.extra >>
    /\ exit_code' = <<2>>
    /\ pc' = "exit"
    /\ UNCHANGED <<fs0, argv, environ, dirs, files, args, api_key, base64_pdf,
                   kwargs, response, exc, sent, ops, stdout>>

\* run_ocr lines 30-32
run_ocr_getenv ==
    /\ pc = "run_ocr"
    /\ api_key' = os_getenv("MISTRAL_API_KEY")
    /\ ops' = Append(ops, "getenv")
    /\ IF Falsy(api_key')
       THEN /\ exc' = [type |-> "RuntimeError",
                       msg  |-> <<"MISTRAL_API_KEY",
                                  " environment variable is not set">>,
                       cause |-> <<>>]
            /\ pc' = "except"
       ELSE /\ exc' = exc
            /\ pc' = "encode_pdf"
    /\ UNCHANGED <<fs0, argv, environ, dirs, files, args, base64_pdf, kwargs,
                   response, sent, stdout, stderr, exit_code>>

\* run_ocr line 34, encode_pdf lines 11-17
encode_pdf ==
    /\ pc = "encode_pdf"
    /\ ops' = Append(ops, "read_bytes")
    /\ IF args.pdf \in DOMAIN files
       THEN /\ base64_pdf' = encode_pdf_returns(files[args.pdf])
            /\ exc' = exc
            /\ pc' = "client"
       ELSE /\ base64_pdf' = base64_pdf
            /\ exc' = encode_pdf_raises(args.pdf, read_bytes_error(args.pdf))
            /\ pc' = "except"
    /\ UNCHANGED <<fs0, argv, environ, dirs, files, args, api_key, kwargs,
                   response, sent, stdout, stderr, exit_code>>

\* run_ocr creating the output directory before it calls the service
run_ocr_client_mkdir_first ==
    /\ pc = "client"
    /\ ops' = ops \o <<"mkdir", "Mistral">>
    /\ dirs' = mkdir_parents(dirs, parent(args.output))
    /\ kwargs' = build_kwargs(args, base64_pdf)
    /\ pc' = "ocr_process"
    /\ UNCHANGED <<fs0, argv, environ, files, args, api_key, base64_pdf,
                   response, exc, sent, stdout, stderr, exit_code>>

\* run_ocr lines 36-45
run_ocr_client ==
    /\ pc = "client"
    /\ ops' = Append(ops, "Mistral")
    /\ kwargs' = build_kwargs(args, base64_pdf)
    /\ pc' = "ocr_process"
    /\ UNCHANGED <<fs0, argv, environ, dirs, files, args, api_key, base64_pdf,
                   response, exc, sent, stdout, stderr, exit_code>>

\* run_ocr line 48, the remote call returns a response
ocr_process_returns ==
    /\ pc = "ocr_process"
    /\ ops' = Append(ops, "ocr.process")
    /\ sent' = Append(sent, kwargs)
    /\ \E r \in Responses : response' = r
    /\ pc' = "write_markdown"
    /\ UNCHANGED <<fs0, argv, environ, dirs, files, args, api_key, base64_pdf,
                   kwargs, exc, stdout, stderr, exit_code>>

\* a remote call that is tried again after it raised
ocr_process_raises_retry ==
    /\ pc = "ocr_process"
    /\ ops' = Append(ops, "ocr.process")
    /\ sent' = Append(sent, kwargs)
    /\ pc' = "ocr_process"
    /\ UNCHANGED <<fs0, argv, environ, dirs, files, args, api_key, base64_pdf,
                   kwargs, response, exc, stdout, stderr, exit_code>>

\* run_ocr lines 48-50, the remote call raises
ocr_process_raises ==
    /\ pc = "ocr_process"
    /\ ops' = Append(ops, "ocr.process")
    /\ sent' = Append(sent, kwargs)
    /\ \E err \in ApiErrors : exc' = run_ocr_raises(err)
    /\ pc' = "except"
    /\ UNCHANGED <<fs0, argv, environ, dirs, files, args, api_key, base64_pdf,
                   kwargs, response, stdout, stderr, exit_code>>

\* write_markdown line 21
write_markdown_mkdir ==
    /\ pc = "write_markdown"
    /\ ops' = Append(ops, "mkdir")
    /\ dirs' = mkdir_parents(dirs, parent(args.output))
    /\ pc' = "write_text"
    /\ UNCHANGED <<fs0, argv, environ, files, args, api_key, base64_pdf, kwargs,
                   response, exc, sent, stdout, stderr, exit_code>>

\* write_markdown line 21, a missing directory cannot be created
write_markdown_mkdir_fails ==
    /\ pc = "write_markdown"
    /\ parent(args.output) \notin dirs
    /\ ops' = Append(ops, "mkdir")
    /\ exc' = [type |-> "PermissionError",
               msg  |-> <<"[Errno 13] Permission denied", ": ">>
                           \o PathStr(parent(args.output)),
               cause |-> <<>>]
    /\ pc' = "except"
    /\ UNCHANGED <<fs0, argv, environ, dirs, files, args, api_key, base64_pdf,
                   kwargs, response, sent, stdout, stderr, exit_code>>

\* write_markdown lines 22-26, run_ocr line 53
write_markdown_write ==
    /\ pc = "write_text"
    /\ ops' = Append(ops, "write_text")
    /\ files' = write_text(files, args.output, join(output_lines(response)))
    /\ pc' = "print"
    /\ UNCHANGED <<fs0, argv, environ, dirs, args, api_key, base64_pdf, kwargs,
                   response, exc, sent, stdout, stderr, exit_code>>

\* write_markdown line 26, the file cannot be opened for writing
write_markdown_write_fails ==
    /\ pc = "write_text"
    /\ ops' = Append(ops, "write_text")
    /\ exc' = [type |-> "PermissionError",
               msg  |-> <<"[Errno 13] Permission denied", ": ">>
                           \o PathStr(args.output),
               cause |-> <<>>]
    /\ pc' = "except"
    /\ UNCHANGED <<fs0, argv, environ, dirs, files, args, api_key, base64_pdf,
                   kwargs, response, sent, stdout, stderr, exit_code>>

\* main line 91, then the interpreter exits with 0
main_print ==
    /\ pc = "print"
    /\ stdout' = Append(stdout, <<"OCR markdown written to ">>
                                   \o PathStr(args.output))
    /\ exit_code' = <<0>>
    /\ pc' = "exit"
    /\ UNCHANGED <<fs0, argv, environ, dirs, files, args, api_key, base64_pdf,
                   kwargs, response, exc, sent, ops, stderr>>

\* the diagnostic printed without file=sys.stderr
main_except_stdout ==
    /\ pc = "except"
    /\ IsSubclass(exc.type, "Exception")
    /\ stdout' = Append(stdout, <<"Error: ">> \o exc.msg)
    /\ exit_code' = <<1>>
    /\ pc' = "exit"
    /\ UNCHANGED <<fs0, argv, environ, dirs, files, args, api_key, base64_pdf,
                   kwargs, response, exc, sent, ops, stderr>>

\* main lines 87-89
main_except ==
    /\ pc = "except"
    /\ IsSubclass(exc.type, "Exception")
    /\ stderr' = Append(stderr, <<"Error: ">> \o exc.msg)
    /\ exit_code' = <<1>>
    /\ pc' = "exit"
    /\ UNCHANGED <<fs0, argv, environ, dirs, files, args, api_key, base64_pdf,
                   kwargs, response, exc, sent, ops, stdout>>

Next ==
    \/ parse_args
    \/ parse_args_help
    \/ parse_args_error
    \/ run_ocr_getenv
    \/ encode_pdf
    \/ run_ocr_client
    \/ ocr_process_returns
    \/ ocr_process_raises
    \/ write_markdown_mkdir
    \/ write_markdown_mkdir_fails
    \/ write_markdown_write
    \/ write_markdown_write_fails
    \/ main_print
    \/ main_except

Spec == Init /\ [][Next]_vars

(***************************** properties **********************************)
Last(s) == s[Len(s)]

Contains(msg, fragment) == \E i \in 1..Len(msg) : msg[i] = fragment

IsPrefix(s, t) == Len(s) <= Len(t) /\ s = SubSeq(t, 1, Len(s))

\* the command line was accepted by parse_args, so run_ocr was entered
CmdLineOk == argv.extra = <<>>

\* write_markdown has returned: the output file is written
FileWritten == CmdLineOk /\ (pc = "print" \/ (pc = "exit" /\ exit_code = <<0>>))

\* what reading the output file back as text returns
ReadBack == decode(files[args.output])

PageHeading(n) == <<"#", " ", "P", "a", "g", "e", " ">> \o IntStr(n)

BlankLine == <<"\n", "\n">>

\* The texts a page's block may hold where the claim leaves trimming open:
\* the markdown itself when it ends in no whitespace, a prefix of it otherwise.
TextChoices(m) ==
    IF m = <<>> \/ ~IsSpace(Last(m)) THEN {m}
    ELSE {SubSeq(m, 1, k) : k \in 0..Len(m)}

\* content is one block per page, in the order of pages
RECURSIVE IsBlocks(_, _)
IsBlocks(content, pages) ==
    IF pages = <<>> THEN content = <<>>
    ELSE \E t \in TextChoices(Head(pages).markdown) :
           LET block == PageHeading(Head(pages).index + 1) \o BlankLine
                         \o t \o BlankLine
           IN  /\ IsPrefix(block, content)
               /\ IsBlocks(SubSeq(content, Len(block) + 1, Len(content)),
                           Tail(pages))

ExamplePages == <<[index |-> 0, markdown |-> <<"A">>],
                  [index |-> 1, markdown |-> <<"B">>]>>

ExampleFile ==
    <<"#", " ", "P", "a", "g", "e", " ", "1", "\n", "\n", "A", "\n", "\n",
      "#", " ", "P", "a", "g", "e", " ", "2", "\n", "\n", "B", "\n", "\n">>

\* C1: after a successful response the output file is exactly the
\* concatenation, in response order, of one block per page: the heading
\* "# Page <index + 1>", a blank line, the page's text, a blank line; the
\* pages (0,"A"),(1,"B") give the example file and no pages an empty file.
\* (Which whitespace of the text is trimmed is C8's matter: a text that ends
\* in no whitespace appears unchanged.)
C1_PageBlocks ==
    FileWritten =>
        /\ args.output \in DOMAIN files
        /\ IsBlocks(ReadBack, response)
        /\ (response = ExamplePages => ReadBack = ExampleFile)
        /\ (response = <<>> => files[args.output] = <<>>)

\* C1 witness: two pages whose indices are not their positions were written
C1_Witness ==
    /\ FileWritten
    /\ Len(response) = 2
    /\ response[1].index = MaxIndex
    /\ response[2].index = 0
    /\ response[1].markdown = <<"A">>

\* the markdown with its trailing whitespace removed, stated without rstrip:
\* the prefix that ends in no whitespace and is followed by whitespace only
RightTrimmed(m) ==
    CHOOSE t \in {SubSeq(m, 1, k) : k \in 0..Len(m)} :
        /\ t = <<>> \/ ~IsSpace(Last(t))
        /\ \A i \in (Len(t) + 1)..Len(m) : IsSpace(m[i])

\* the markdown with the whitespace at both of its ends removed
BothTrimmed(m) ==
    LET t == RightTrimmed(m)
    IN  CHOOSE u \in {SubSeq(t, k, Len(t)) : k \in 1..(Len(t) + 1)} :
            /\ u = <<>> \/ ~IsSpace(Head(u))
            /\ \A i \in 1..(Len(t) - Len(u)) : IsSpace(t[i])

\* one block per page, each text trimmed at its right end
RECURSIVE BlocksRightTrimmed(_)
BlocksRightTrimmed(pages) ==
    IF pages = <<>> THEN <<>>
    ELSE BlocksRightTrimmed(SubSeq(pages, 1, Len(pages) - 1))
         \o PageHeading(Last(pages).index + 1) \o BlankLine
         \o RightTrimmed(Last(pages).markdown) \o BlankLine

\* one block per page, each text trimmed at both ends
RECURSIVE BlocksBothTrimmed(_)
BlocksBothTrimmed(pages) ==
    IF pages = <<>> THEN <<>>
    ELSE BlocksBothTrimmed(SubSeq(pages, 1, Len(pages) - 1))
         \o PageHeading(Last(pages).index + 1) \o BlankLine
         \o BothTrimmed(Last(pages).markdown) \o BlankLine

\* C8 as claimed: the text under each heading is the page's markdown with
\* the whitespace at both its beginning and its end removed.
C8_TrimmedBothEnds ==
    FileWritten => ReadBack = BlocksBothTrimmed(response)

\* C8 amended: the text under each heading is the page's markdown with its
\* trailing whitespace removed; whitespace at its beginning is kept.
C8_TrailingTrimmed ==
    FileWritten => ReadBack = BlocksRightTrimmed(response)

\* C8 witness: a page that starts and ends with whitespace was written
C8_Witness ==
    /\ FileWritten
    /\ Len(response) = 1
    /\ response[1].markdown = <<" ", "A", "\n">>

\* C7: a successful run leaves every ancestor directory of the output path
\* in place, created where it was missing before the file was written, and
\* reading the output file back returns exactly the text that was written,
\* also when the directory or the file existed before (the old content is
\* gone, and creating a directory that exists raises nothing); no other
\* file is touched.
C7_WriteReadBack ==
    /\ pc = "write_text" => Ancestors(parent(args.output)) \subseteq dirs
    /\ (exc # NoExc /\ Last(ops) = "mkdir")
          => parent(args.output) \notin fs0.dirs
    /\ FileWritten =>
        /\ Ancestors(parent(args.output)) \subseteq dirs
        /\ fs0.dirs \subseteq dirs
        /\ ReadBack = join(output_lines(response))
        /\ \A q \in DOMAIN fs0.files :
              q # args.output => q \in DOMAIN files /\ files[q] = fs0.files[q]
        /\ DOMAIN files = DOMAIN fs0.files \cup {args.output}

\* C7 witness: a run that had to create both missing directories succeeded
C7_Witness ==
    /\ FileWritten
    /\ pc = "exit"
    /\ args.output = NestedOutput
    /\ <<"out">> \notin fs0.dirs
    /\ response # <<>>

\* the external operations of a complete run, in the order of the code
StepOrder ==
    <<"getenv", "read_bytes", "Mistral", "ocr.process", "mkdir", "write_text">>

\* the whole pipeline ran and nothing was raised
PipelineSucceeded == ops = StepOrder /\ exc = NoExc

CredentialSet ==
    /\ "MISTRAL_API_KEY" \in DOMAIN environ
    /\ environ["MISTRAL_API_KEY"] # ""

\* nothing exists at the PDF path
PdfMissing ==
    /\ Namespace(argv).pdf \notin DOMAIN fs0.files
    /\ Namespace(argv).pdf \notin fs0.dirs

\* the remote call was made and raised
CallFailed ==
    /\ Len(sent) = 1
    /\ ops # <<>>
    /\ Last(ops) = "ocr.process"
    /\ exc # NoExc

\* the output of print(f"Error: {exc}", file=sys.stderr)
IsErrorLine(line) == Len(line) >= 1 /\ Head(line) = "Error: "

WrittenLine == <<"OCR markdown written to ">> \o PathStr(Namespace(argv).output)

\* C2 as claimed: every run ends with exit code 0 or 1; 0 exactly when the
\* whole pipeline succeeded, and then the output path is on standard output;
\* every failure, a rejected command line included, ends with exit code 1,
\* exactly one line "Error: <message>" on standard error and nothing on
\* standard output.
C2_ExitZeroOrOne ==
    pc = "exit" =>
        /\ exit_code \in {<<0>>, <<1>>}
        /\ (exit_code = <<0>>) = PipelineSucceeded
        /\ exit_code = <<0>> => stdout = <<WrittenLine>>
        /\ exit_code # <<0>> =>
              /\ Len(stderr) = 1
              /\ IsErrorLine(stderr[1])
              /\ stdout = <<>>

\* C2 amended: every run ends (no statement short of the exit is without a
\* next step, and every exception raised is one main catches), with exit
\* code 0, 1 or 2.  A command line that
\* argparse rejects ends with 2 and argparse's usage and error lines on
\* standard error, --help ends with 0 after the help is printed, both before
\* anything else is done.  For a command line that parses, 0 happens exactly
\* when the whole pipeline succeeded, and then the line with the output path
\* is the only output; every failure inside run_ocr ends with 1, exactly one
\* "Error: <message>" on standard error and nothing on standard output.
C2_ExitCodes ==
    /\ pc \in {"parse_args", "run_ocr", "encode_pdf", "client", "ocr_process",
                "write_markdown", "write_text", "print", "except", "exit"}
    /\ pc = "parse_args" =>
          ENABLED (parse_args \/ parse_args_help \/ parse_args_error)
    /\ pc = "run_ocr" => ENABLED run_ocr_getenv
    /\ pc = "encode_pdf" => ENABLED encode_pdf
    /\ pc = "client" => ENABLED run_ocr_client
    /\ pc = "ocr_process" => ENABLED ocr_process_raises
    /\ pc = "print" => ENABLED main_print
    /\ pc = "except" => ENABLED main_except
    /\ pc = "exit" =>
        /\ exit_code \in {<<0>>, <<1>>, <<2>>}
        /\ argv.extra = <<"--help">> =>
              exit_code = <<0>> /\ stdout # <<>> /\ stderr = <<>> /\ ops = <<>>
        /\ argv.extra \notin {<<>>, <<"--help">>} =>
              /\ exit_code = <<2>>
              /\ stdout = <<>>
              /\ Len(stderr) = 2
              /\ \A i \in 1..2 : ~IsErrorLine(stderr[i])
              /\ ops = <<>>
        /\ CmdLineOk =>
              /\ (exit_code = <<0>>) = PipelineSucceeded
              /\ exit_code = <<0>> => stdout = <<WrittenLine>> /\ stderr = <<>>
              /\ exit_code # <<0>> =>
                    /\ exit_code = <<1>>
                    /\ stderr = << <<"Error: ">> \o exc.msg >>
                    /\ stdout = <<>>

\* C2 witness: a rejected command line has ended the run with exit code 2
C2_Witness == pc = "exit" /\ exit_code = <<2>> /\ Len(stderr) = 2

\* C3 as claimed: a run whose PDF path names nothing ends with exit code 1
\* and a message containing "PDF not found", whatever the credential.
C3_PdfNotFoundAlways ==
    (pc = "exit" /\ CmdLineOk /\ PdfMissing) =>
        /\ exit_code = <<1>>
        /\ Len(stderr) = 1
        /\ Contains(stderr[1], "PDF not found")

\* C3 amended: a run with the credential set (and not empty) whose PDF path
\* names nothing ends with exit code 1 and a message containing
\* "PDF not found", without any request to the service.
C3_PdfNotFound ==
    (pc = "exit" /\ CmdLineOk /\ CredentialSet /\ PdfMissing) =>
        /\ exit_code = <<1>>
        /\ stderr = << <<"Error: ", "PDF not found", ": ">>
                          \o PathStr(Namespace(argv).pdf) >>
        /\ exc.type = "FileNotFoundError"
        /\ sent = <<>>

\* C3 witness: a run with a credential and no file at the PDF path has exited
C3_Witness ==
    /\ pc = "exit"
    /\ CmdLineOk
    /\ CredentialSet
    /\ PdfMissing
    /\ Last(ops) = "read_bytes"

\* C4: in a run (of an accepted command line) where MISTRAL_API_KEY is absent
\* or empty, nothing but the environment is ever consulted: the PDF is not
\* read, no client is built, no request is sent; the run ends with exit code
\* 1 and one error line containing "MISTRAL_API_KEY".
C4_MissingCredential ==
    (CmdLineOk /\ ~CredentialSet) =>
        /\ pc \in {"parse_args", "run_ocr", "except", "exit"}
        /\ ops \in {<<>>, <<"getenv">>}
        /\ base64_pdf = <<>>
        /\ kwargs = <<>>
        /\ sent = <<>>
        /\ pc = "exit" =>
              /\ exit_code = <<1>>
              /\ Len(stderr) = 1
              /\ IsErrorLine(stderr[1])
              /\ Contains(stderr[1], "MISTRAL_API_KEY")
              /\ stdout = <<>>

\* C4 witness: a run with an empty credential and a missing PDF has exited
C4_Witness ==
    /\ pc = "exit"
    /\ CmdLineOk
    /\ "MISTRAL_API_KEY" \in DOMAIN environ
    /\ environ["MISTRAL_API_KEY"] = ""
    /\ PdfMissing
    /\ exit_code = <<1>>

\* C5 as claimed: whatever the remote call raises, the failure leaves
\* run_ocr as one runtime failure whose message contains
\* "OCR request failed", and the run ends with exit code 1 and that message.
C5_AnyFailureWrapped ==
    CallFailed =>
        /\ exc.type = "RuntimeError"
        /\ Contains(exc.msg, "OCR request failed")
        /\ pc = "exit" =>
              /\ exit_code = <<1>>
              /\ Len(stderr) = 1
              /\ Contains(stderr[1], "OCR request failed")

\* C5 amended: when the remote call raises the SDK's SDKError, the failure
\* leaves run_ocr as a RuntimeError "OCR request failed: <error>" caused by
\* it; an exception of any other class leaves run_ocr as it is, its message
\* without "OCR request failed".  Either way the run ends with exit code 1
\* and the one line "Error: <message>".
C5_SdkErrorWrapped ==
    CallFailed =>
        LET err == IF exc.cause = <<>> THEN exc ELSE exc.cause[1]
        IN  /\ err \in ApiErrors
            /\ err.type = "SDKError" =>
                  /\ exc.type = "RuntimeError"
                  /\ exc.msg = <<"OCR request failed", ": ">> \o err.msg
            /\ err.type # "SDKError" =>
                  /\ exc = err
                  /\ ~Contains(exc.msg, "OCR request failed")
            /\ pc \in {"except", "exit"}
            /\ pc = "exit" =>
                  /\ exit_code = <<1>>
                  /\ stderr = << <<"Error: ">> \o exc.msg >>

\* C5 witness: an SDKError of the remote call has ended the run
C5_Witness ==
    /\ CallFailed
    /\ pc = "exit"
    /\ exc.cause # <<>>
    /\ Contains(stderr[1], "Status 429")

\* C6: every request the service receives holds include_image_base64 (with
\* the value True) exactly when --include-images was given, and no such key
\* otherwise; it always carries the model given (or the default) and a
\* document of type "document_url" whose URL is "data:application/pdf;base64,"
\* followed by the base64 text of the file, named by the last component of
\* the PDF path.
C6_RequestPayload ==
    \A i \in 1..Len(sent) :
        LET k == sent[i]
        IN  /\ ("include_image_base64" \in DOMAIN k) = argv.include_images
            /\ "include_image_base64" \in DOMAIN k
                  => k.include_image_base64 = TRUE
            /\ {"model", "document"} \subseteq DOMAIN k
            /\ DOMAIN k \subseteq {"model", "document", "include_image_base64"}
            /\ k.model = IF argv.model = <<>> THEN "mistral-ocr-latest"
                         ELSE argv.model[1]
            /\ DOMAIN k.document = {"type", "document_url", "document_name"}
            /\ k.document.type = "document_url"
            /\ k.document.document_url =
                  <<"data:application/pdf;base64,",
                    "J", "V", "B", "E", "R", "g", "=", "=">>
            /\ k.document.document_name = "doc.pdf"

\* C6 witness: a request was sent by a run without --include-images
C6_Witness ==
    /\ Len(sent) = 1
    /\ ~argv.include_images
    /\ argv.model # <<>>
    /\ "include_image_base64" \notin DOMAIN sent[1]

\* C9: the remote call is made at most once: exactly once in a run that
\* passed the credential check and the file read, never otherwise; after a
\* call that raised, the run only goes to the error exit.
C9_CalledAtMostOnce ==
    LET passed == /\ CmdLineOk
                  /\ CredentialSet
                  /\ Namespace(argv).pdf \in DOMAIN fs0.files
    IN  /\ Len(sent) <= 1
        /\ ~passed => sent = <<>>
        /\ pc = "exit" => (Len(sent) = 1) = passed
        /\ Len(sent) = Cardinality({i \in 1..Len(ops) : ops[i] = "ocr.process"})
        /\ CallFailed =>
              /\ pc \in {"except", "exit"}
              /\ pc = "exit" => exit_code = <<1>>

\* C9 witness: a call that raised a transport error has ended the run
C9_Witness ==
    /\ CallFailed
    /\ pc = "exit"
    /\ exc.type = "ConnectError"
    /\ Len(sent) = 1

\* C10: the steps happen in the order credential check, PDF read, (client,)
\* remote call, directory creation, file write; once a step fails nothing
\* but the error exit follows; so after a failure of the credential check,
\* the PDF read or the remote call the file system is as it was at the
\* start: no directory created, no file created or modified.
C10_OrderAndFrame ==
    /\ IsPrefix(ops, StepOrder)
    /\ exc # NoExc => pc \in {"except", "exit"}
    /\ (\A i \in 1..Len(ops) : ops[i] # "mkdir") => dirs = fs0.dirs
    /\ (\A i \in 1..Len(ops) : ops[i] # "write_text") => files = fs0.files
    /\ (exc # NoExc /\ Last(ops) \in {"getenv", "read_bytes", "ocr.process"})
          => dirs = fs0.dirs /\ files = fs0.files

\* C10 witness: the remote call failed in a run whose output file existed,
\* and the file still holds its old content
C10_Witness ==
    /\ pc = "exit"
    /\ CallFailed
    /\ args.output \in DOMAIN files
    /\ files[args.output] = OldContent

====
